---------------------------- MODULE Spec2Model ----------------------------
(***************************************************************************)
(* Model of MIDICommandSynthesizer (src/midi_synthesizer.py): the event    *)
(* store, its three append operations, the 6-value vector codec            *)
(* (get_command_vector / load_from_vector) and the time-sorted hand-over   *)
(* of synthesize_to_file.                                                  *)
(*                                                                         *)
(* Real numbers (Python float, numpy float32) are fixed-point: the integer *)
(* n stands for the real n/2, so 1 is 0.5 and 120 is 60.0.  Python ints    *)
(* (pitch, track, ...) are plain integers.  ToFloat and ToInt convert      *)
(* between the two, F32 rounds a real to the nearest float32.  NaN and the *)
(* infinities are outside the model.                                       *)
(***************************************************************************)
EXTENDS Integers, Sequences, FiniteSets, TLC

\* ------------------------------------------------------------- bounds
\* add_* is not called on a store that already holds MaxEvents events.
MaxEvents == 2
\* A scanned vector is cut from at most MaxParts records and stray values.
MaxParts == 3

\* ------------------------------------------------- program constants
MIDI_MIN == 0
MIDI_MAX == 127
RECORD_LEN == 6
NOTE_ON == 1
CONTROL_CHANGE == 2
PROGRAM_CHANGE == 3
\* Bits of a float32 significand (dtype=np.float32).
F32_BITS == 24

\* -------------------------------------------------------- conversions
\* float(n) of a Python int n: the real n.0.
ToFloat(n) == 2 * n

\* int(x) of a real: truncation toward zero.
ToInt(x) == IF x >= 0 THEN x \div 2 ELSE -((-x) \div 2)

Abs(x) == IF x < 0 THEN -x ELSE x

RECURSIVE F32Shift(_)
\* How many low bits a magnitude loses to fit a float32 significand.
F32Shift(a) == IF a < 2^F32_BITS THEN 0 ELSE 1 + F32Shift(a \div 2)

\* np.float32(x): round to the nearest value with a 24-bit significand,
\* ties to the even significand.
F32(x) ==
  LET a == Abs(x)
      k == F32Shift(a)
      q == a \div (2^k)
      r == a % (2^k)
      h == (2^k) \div 2
      m == IF k = 0 THEN a
           ELSE (IF r > h \/ (r = h /\ q % 2 = 1) THEN q + 1 ELSE q) * (2^k)
  IN IF x < 0 THEN -m ELSE m

\* np.array(vector, dtype=np.float32)
F32Array(v) == [k \in 1..Len(v) |-> F32(v[k])]

Clip_NoUpper(x, lo, hi) == IF x < lo THEN lo ELSE x

\* np.clip(x, lo, hi)
Clip(x, lo, hi) == IF x < lo THEN lo ELSE IF x > hi THEN hi ELSE x

\* int(np.clip(x, 0, 127))
ClipByte(x) == ToInt(Clip(x, ToFloat(MIDI_MIN), ToFloat(MIDI_MAX)))

\* ------------------------------------------------------ event model
NoteCommand_ClampTrackTime(a) ==
  [type |-> "note_on", pitch |-> ClipByte(a.pitch),
   velocity |-> ClipByte(a.velocity), duration |-> a.duration,
   track |-> IF ToInt(a.track) < 0 THEN 0 ELSE ToInt(a.track),
   time |-> IF a.time < 0 THEN 0 ELSE a.time]

\* The dict add_note appends; float() of a real is that real.
NoteCommand(a) ==
  [type |-> "note_on", pitch |-> ClipByte(a.pitch),
   velocity |-> ClipByte(a.velocity), duration |-> a.duration,
   track |-> ToInt(a.track), time |-> a.time]

\* The dict add_control_change appends.
ControlCommand(a) ==
  [type |-> "control_change", controller |-> ClipByte(a.controller),
   value |-> ClipByte(a.value), track |-> ToInt(a.track), time |-> a.time]

\* The dict add_program_change appends.
ProgramCommand(a) ==
  [type |-> "program_change", program |-> ClipByte(a.program),
   track |-> ToInt(a.track), time |-> a.time]

\* --------------------------------------------------------------- state
VARIABLES
  num_tracks,     \* self.num_tracks
  tempo,          \* self.tempo
  midi_commands,  \* self.midi_commands, in insertion order
  inputs,         \* per stored event, the arguments its add_* call received
  op,             \* the last operation called
  ret,            \* the vector the last get_command_vector returned
  arg,            \* the vector the last load_from_vector was given
  rendered,       \* the events the last synthesize_to_file handed over,
                  \* as positions in midi_commands (object references)
  err,            \* the exception the last operation raised, or "none"
  had_events,     \* whether the store held events when load_from_vector
                  \* was last called
  pc,             \* "idle", or "scan" inside load_from_vector's while loop
  i,              \* load_from_vector's scan index
  iters           \* loop iterations load_from_vector has completed

vars == <<num_tracks, tempo, midi_commands, inputs, op, ret, arg, rendered,
          err, had_events, pc, i, iters>>

store == <<midi_commands, inputs>>
ctor == <<num_tracks, tempo>>
scan == <<pc, i, iters>>

\* __init__(num_tracks=1, tempo=120), called with its defaults.
CtorArgs == {<<1, 120>>}

Init ==
  /\ \E c \in CtorArgs : num_tracks = c[1] /\ tempo = c[2]
  /\ midi_commands = <<>>
  /\ inputs = <<>>
  /\ op = "init"
  /\ ret = <<>>
  /\ arg = <<>>
  /\ rendered = <<>>
  /\ err = "none"
  /\ had_events = FALSE
  /\ pc = "idle"
  /\ i = 0
  /\ iters = 0

\* What every call other than the one that sets them leaves behind.
Called(name) ==
  /\ op' = name
  /\ err' = "none"
  /\ had_events' = FALSE
  /\ UNCHANGED <<ctor, scan>>

\* ------------------------------------------------------------ add_*
NotePitchArgs == {ToFloat(-5), ToFloat(60), ToFloat(200)}
NoteVelocityArgs == {ToFloat(100)}
NoteDurationArgs == {1}
NoteTrackArgs == {ToFloat(0)}
NoteTimeArgs == {ToFloat(0), ToFloat(1)}

CCControllerArgs == {ToFloat(7)}
CCValueArgs == {ToFloat(-1), ToFloat(64), ToFloat(300)}
CCTrackArgs == {ToFloat(0), ToFloat(16777217)}
CCTimeArgs == {ToFloat(0)}

PCProgramArgs == {ToFloat(0), ToFloat(128)}
PCTrackArgs == {ToFloat(0), ToFloat(-1)}
PCTimeArgs == {-1, ToFloat(1)}

add_note ==
  /\ pc = "idle"
  /\ Len(midi_commands) < MaxEvents
  /\ \E pitch \in NotePitchArgs, velocity \in NoteVelocityArgs,
        duration \in NoteDurationArgs, track \in NoteTrackArgs,
        time \in NoteTimeArgs :
       LET a == [pitch |-> pitch, velocity |-> velocity,
                 duration |-> duration, track |-> track, time |-> time]
       IN /\ midi_commands' = Append(midi_commands, NoteCommand(a))
          /\ inputs' = Append(inputs, a)
  /\ Called("add_note")
  /\ ret' = <<>> /\ arg' = <<>> /\ rendered' = <<>>

add_control_change ==
  /\ pc = "idle"
  /\ Len(midi_commands) < MaxEvents
  /\ \E controller \in CCControllerArgs, value \in CCValueArgs,
        track \in CCTrackArgs, time \in CCTimeArgs :
       LET a == [controller |-> controller, value |-> value,
                 track |-> track, time |-> time]
       IN /\ midi_commands' = Append(midi_commands, ControlCommand(a))
          /\ inputs' = Append(inputs, a)
  /\ Called("add_control_change")
  /\ ret' = <<>> /\ arg' = <<>> /\ rendered' = <<>>

add_program_change ==
  /\ pc = "idle"
  /\ Len(midi_commands) < MaxEvents
  /\ \E program \in PCProgramArgs, track \in PCTrackArgs,
        time \in PCTimeArgs :
       LET a == [program |-> program, track |-> track, time |-> time]
       IN /\ midi_commands' = Append(midi_commands, ProgramCommand(a))
          /\ inputs' = Append(inputs, a)
  /\ Called("add_program_change")
  /\ ret' = <<>> /\ arg' = <<>> /\ rendered' = <<>>

\* ------------------------------------------------ get_command_vector
EncodeCommand_NoPadding(cmd) ==
  IF cmd.type = "note_on"
    THEN <<ToFloat(NOTE_ON), ToFloat(cmd.pitch), ToFloat(cmd.velocity),
           cmd.duration, ToFloat(cmd.track), cmd.time>>
  ELSE IF cmd.type = "control_change"
    THEN <<ToFloat(CONTROL_CHANGE), ToFloat(cmd.controller),
           ToFloat(cmd.value), ToFloat(cmd.track), cmd.time>>
  ELSE <<ToFloat(PROGRAM_CHANGE), ToFloat(cmd.program), ToFloat(cmd.track),
         cmd.time>>

EncodeCommand_TimeBeforeTrack(cmd) ==
  IF cmd.type = "note_on"
    THEN <<ToFloat(NOTE_ON), ToFloat(cmd.pitch), ToFloat(cmd.velocity),
           cmd.duration, cmd.time, ToFloat(cmd.track)>>
  ELSE IF cmd.type = "control_change"
    THEN <<ToFloat(CONTROL_CHANGE), ToFloat(cmd.controller),
           ToFloat(cmd.value), cmd.time, ToFloat(cmd.track), ToFloat(0)>>
  ELSE <<ToFloat(PROGRAM_CHANGE), ToFloat(cmd.program), cmd.time,
         ToFloat(cmd.track), ToFloat(0), ToFloat(0)>>

\* The values vector.extend receives for one command.
EncodeCommand(cmd) ==
  IF cmd.type = "note_on"
    THEN <<ToFloat(NOTE_ON), ToFloat(cmd.pitch), ToFloat(cmd.velocity),
           cmd.duration, ToFloat(cmd.track), cmd.time>>
  ELSE IF cmd.type = "control_change"
    THEN <<ToFloat(CONTROL_CHANGE), ToFloat(cmd.controller),
           ToFloat(cmd.value), ToFloat(cmd.track), cmd.time, ToFloat(0)>>
  ELSE <<ToFloat(PROGRAM_CHANGE), ToFloat(cmd.program), ToFloat(cmd.track),
         cmd.time, ToFloat(0), ToFloat(0)>>

RECURSIVE ExtendAll(_)
\* The list built by the for loop over self.midi_commands.
ExtendAll(cmds) ==
  IF cmds = <<>> THEN <<>>
  ELSE ExtendAll(SubSeq(cmds, 1, Len(cmds) - 1))
         \o EncodeCommand(cmds[Len(cmds)])

\* The array get_command_vector returns for a store.
CommandVector(cmds) == F32Array(ExtendAll(cmds))

get_command_vector ==
  /\ pc = "idle"
  /\ ret' = CommandVector(midi_commands)
  /\ Called("get_command_vector")
  /\ arg' = <<>> /\ rendered' = <<>>
  /\ UNCHANGED store

\* -------------------------------------------------- load_from_vector
\* Values read after the discriminator: vector[i+1] .. vector[i+5] for a
\* note, .. vector[i+4] for a control change, .. vector[i+3] for a program
\* change.
SlotsRead(cmd_type) ==
  IF cmd_type = NOTE_ON THEN 5
  ELSE IF cmd_type = CONTROL_CHANGE THEN 4
  ELSE 3

Advance_StuckOnUnknown(cmd_type) ==
  IF cmd_type \in {NOTE_ON, CONTROL_CHANGE, PROGRAM_CHANGE}
    THEN RECORD_LEN ELSE 0

Advance_RecordOnUnknown(cmd_type) == RECORD_LEN

\* i += 6 after a recognized discriminator, i += 1 otherwise.
Advance(cmd_type) ==
  IF cmd_type \in {NOTE_ON, CONTROL_CHANGE, PROGRAM_CHANGE}
    THEN RECORD_LEN ELSE 1

\* The keyword arguments load_from_vector passes to add_* for the record at
\* index b of the array v (v[b+k] in the code is v[b + k + 1] here).
DecodeArgs(cmd_type, v, b) ==
  IF cmd_type = NOTE_ON
    THEN [pitch |-> ToFloat(ToInt(v[b + 2])),
          velocity |-> ToFloat(ToInt(v[b + 3])),
          duration |-> v[b + 4],
          track |-> ToFloat(ToInt(v[b + 5])),
          time |-> v[b + 6]]
  ELSE IF cmd_type = CONTROL_CHANGE
    THEN [controller |-> ToFloat(ToInt(v[b + 2])),
          value |-> ToFloat(ToInt(v[b + 3])),
          track |-> ToFloat(ToInt(v[b + 4])),
          time |-> v[b + 5]]
  ELSE [program |-> ToFloat(ToInt(v[b + 2])),
        track |-> ToFloat(ToInt(v[b + 3])),
        time |-> v[b + 4]]

\* The add_* call that serves a discriminator.
AddCommand(cmd_type, a) ==
  IF cmd_type = NOTE_ON THEN NoteCommand(a)
  ELSE IF cmd_type = CONTROL_CHANGE THEN ControlCommand(a)
  ELSE ProgramCommand(a)

\* One iteration of the while loop over the float32 array v, from the scan
\* state st = [cmds, inputs, i, err].  numpy raises IndexError on the first
\* read at or beyond len(v); nothing is appended then and i stays.
ScanIter(v, st) ==
  LET cmd_type == ToInt(v[st.i + 1])
      a == DecodeArgs(cmd_type, v, st.i)
  IN IF cmd_type \in {NOTE_ON, CONTROL_CHANGE, PROGRAM_CHANGE}
       THEN IF st.i + SlotsRead(cmd_type) >= Len(v)
              THEN [st EXCEPT !.err = "IndexError"]
              ELSE [st EXCEPT !.cmds = Append(@, AddCommand(cmd_type, a)),
                              !.inputs = Append(@, a),
                              !.i = @ + Advance(cmd_type)]
       ELSE [st EXCEPT !.i = @ + Advance(cmd_type)]

RECURSIVE Scan(_, _)
\* The while loop run until it exits or raises.
Scan(v, st) ==
  IF st.err # "none" \/ st.i >= Len(v) THEN st ELSE Scan(v, ScanIter(v, st))

ClearCommands_Keep(s) == s

\* self.midi_commands = []
ClearCommands(s) == [cmds |-> <<>>, inputs |-> <<>>]

\* The scan state at the first loop test.
ScanStart(s) ==
  [cmds |-> ClearCommands(s).cmds, inputs |-> ClearCommands(s).inputs,
   i |-> 0, err |-> "none"]

\* A store as created by __init__.
FreshStore == [cmds |-> <<>>, inputs |-> <<>>]

\* Real n.0 for each integer of a tuple.
Reals(t) == [k \in 1..Len(t) |-> ToFloat(t[k])]

\* Vectors a caller passes besides one get_command_vector returned: the two
\* decoding scenarios, a record cut short, and records whose slots are out
\* of range, fractional or negative.
ScenarioVectors ==
  { Reals(<<99, 1, 60, 90, 2, 0, 0>>),
    Reals(<<3, 0, 0, 0, 0, 0, 1, 60, 90, 2, 0, 0>>),
    Reals(<<1, 60>>),
    <<ToFloat(1), ToFloat(200), ToFloat(-5), 1, ToFloat(-1), -1>>,
    <<ToFloat(2), 601, -3, ToFloat(-2), ToFloat(1), ToFloat(0),
      ToFloat(3), ToFloat(-1), ToFloat(1), 1, ToFloat(0), ToFloat(0)>> }

load_from_vector ==
  /\ pc = "idle"
  /\ \E v \in ScenarioVectors \cup {ret} :
       LET done == Scan(F32Array(v),
                        ScanStart([cmds |-> midi_commands, inputs |-> inputs]))
       IN /\ arg' = v
          /\ midi_commands' = done.cmds
          /\ inputs' = done.inputs
          /\ err' = done.err
  /\ op' = "load_from_vector"
  /\ had_events' = (midi_commands # <<>>)
  /\ ret' = <<>> /\ rendered' = <<>>
  /\ UNCHANGED <<ctor, scan>>

\* ------------------------------------------------ synthesize_to_file
\* Position at which a stable sort places reference r among the already
\* sorted references acc: after every entry whose time is not greater.
RECURSIVE InsertByTime_BeforeEqual(_, _, _)
InsertByTime_BeforeEqual(cmds, acc, r) ==
  IF acc = <<>> THEN <<r>>
  ELSE IF cmds[acc[Len(acc)]].time < cmds[r].time
    THEN Append(acc, r)
  ELSE Append(InsertByTime_BeforeEqual(cmds, SubSeq(acc, 1, Len(acc) - 1), r),
              acc[Len(acc)])

RECURSIVE InsertByTime(_, _, _)
InsertByTime(cmds, acc, r) ==
  IF acc = <<>> THEN <<r>>
  ELSE IF cmds[acc[Len(acc)]].time <= cmds[r].time
    THEN Append(acc, r)
  ELSE Append(InsertByTime(cmds, SubSeq(acc, 1, Len(acc) - 1), r),
              acc[Len(acc)])

RECURSIVE SortedRefs(_, _)
\* sorted(self.midi_commands, key=time) of the first n commands, as
\* references (positions in the store).
SortedRefs(cmds, n) ==
  IF n = 0 THEN <<>> ELSE InsertByTime(cmds, SortedRefs(cmds, n - 1), n)

\* sorted(self.midi_commands, key=lambda x: x['time']): a new list.
sorted_commands(cmds) == SortedRefs(cmds, Len(cmds))

synthesize_to_file_SortInPlace ==
  /\ pc = "idle"
  /\ LET order == sorted_commands(midi_commands)
     IN /\ midi_commands' = [k \in 1..Len(order) |-> midi_commands[order[k]]]
        /\ inputs' = [k \in 1..Len(order) |-> inputs[order[k]]]
        /\ rendered' = [k \in 1..Len(order) |-> k]
  /\ Called("synthesize_to_file")
  /\ ret' = <<>> /\ arg' = <<>>

\* The renderer (midiutil) is an external collaborator: it receives the
\* sorted commands one by one and is taken to accept them.
synthesize_to_file ==
  /\ pc = "idle"
  /\ rendered' = sorted_commands(midi_commands)
  /\ Called("synthesize_to_file")
  /\ ret' = <<>> /\ arg' = <<>>
  /\ UNCHANGED store

Next == add_note \/ add_control_change \/ add_program_change
          \/ get_command_vector \/ load_from_vector \/ synthesize_to_file

Spec == Init /\ [][Next]_vars

\* ------------------------------- load_from_vector, one iteration a step
\* Well-formed records a scanned vector is cut from: the note of the
\* decoding scenarios and a control change with out-of-range, fractional
\* and negative slots.
ScanRecords ==
  { Reals(<<1, 60, 90, 2, 0, 0>>),
    <<ToFloat(2), 601, -3, ToFloat(-2), ToFloat(1), ToFloat(0)>> }

\* Stray values: 99.0 and 0.5, neither read as discriminator 1, 2 or 3.
ScanStrays == {ToFloat(99), 1}

ScanParts == ScanRecords \cup {<<x>> : x \in ScanStrays}

PartSeqs == UNION {[1..n -> ScanParts] : n \in 0..MaxParts}

RECURSIVE Flatten(_)
Flatten(parts) ==
  IF parts = <<>> THEN <<>>
  ELSE Flatten(SubSeq(parts, 1, Len(parts) - 1)) \o parts[Len(parts)]

\* Every sequence of records and strays, and every vector cut short of one.
ScanVectors ==
  UNION { {SubSeq(Flatten(p), 1, n) : n \in 0..Len(Flatten(p))} :
          p \in PartSeqs }

\* Lines 118-121: the store is emptied and the scan index set to 0.
LoadBegin ==
  /\ pc = "idle"
  /\ \E v \in ScanVectors :
       LET st == ScanStart([cmds |-> midi_commands, inputs |-> inputs])
       IN /\ arg' = v
          /\ midi_commands' = st.cmds
          /\ inputs' = st.inputs
          /\ i' = st.i
          /\ err' = st.err
  /\ iters' = 0
  /\ pc' = "scan"
  /\ op' = "load_from_vector"
  /\ had_events' = (midi_commands # <<>>)
  /\ ret' = <<>> /\ rendered' = <<>>
  /\ UNCHANGED ctor

\* Lines 122-150: the loop test passes and one iteration runs; an
\* IndexError ends the call.
ScanStep ==
  /\ pc = "scan"
  /\ i < Len(F32Array(arg))
  /\ LET st == ScanIter(F32Array(arg),
                        [cmds |-> midi_commands, inputs |-> inputs,
                         i |-> i, err |-> err])
     IN /\ midi_commands' = st.cmds
        /\ inputs' = st.inputs
        /\ i' = st.i
        /\ err' = st.err
        /\ pc' = IF st.err = "none" THEN "scan" ELSE "idle"
        /\ iters' = IF st.err = "none" THEN iters + 1 ELSE iters
  /\ UNCHANGED <<ctor, op, ret, arg, rendered, had_events>>

\* Lines 122 and 152: the loop test fails and the call returns.
LoadReturn ==
  /\ pc = "scan"
  /\ i >= Len(F32Array(arg))
  /\ pc' = "idle"
  /\ UNCHANGED <<ctor, store, op, ret, arg, rendered, err, had_events, i,
                 iters>>

ScanNext == LoadBegin \/ ScanStep \/ LoadReturn

\* The call is synchronous and single-threaded: once begun, the loop runs
\* until it exits or raises.
ScanSpec == Init /\ [][ScanNext]_vars /\ WF_vars(ScanStep \/ LoadReturn)

\* ===================================================================
\*                              Claims
\* ===================================================================
Loaded == pc = "idle" /\ op = "load_from_vector"

\* An integer in 0..127, given as a real.
IsByteArg(x) == x = ToFloat(ToInt(x)) /\ ToInt(x) \in MIDI_MIN..MIDI_MAX
\* A non-negative integer that float32 holds exactly.
IsTrackArg(x) == x = ToFloat(ToInt(x)) /\ x >= 0 /\ F32(x) = x
\* A non-negative real that float32 holds exactly.
IsTimeArg(x) == x >= 0 /\ F32(x) = x

ValidArgs(cmd, a) ==
  /\ IsTrackArg(a.track)
  /\ IsTimeArg(a.time)
  /\ IF cmd.type = "note_on"
       THEN IsByteArg(a.pitch) /\ IsByteArg(a.velocity)
            /\ IsTimeArg(a.duration)
     ELSE IF cmd.type = "control_change"
       THEN IsByteArg(a.controller) /\ IsByteArg(a.value)
     ELSE IsByteArg(a.program)

AllValid ==
  \A k \in 1..Len(midi_commands) : ValidArgs(midi_commands[k], inputs[k])

ClampedPairs(cmd, a) ==
  IF cmd.type = "note_on"
    THEN {<<cmd.pitch, a.pitch>>, <<cmd.velocity, a.velocity>>}
  ELSE IF cmd.type = "control_change"
    THEN {<<cmd.controller, a.controller>>, <<cmd.value, a.value>>}
  ELSE {<<cmd.program, a.program>>}

\* C2: every stored pitch, velocity, controller, value and program lies in
\* 0..127; an argument above 127 is stored as 127, one below 0 as 0.
C2_ClampedFields ==
  \A k \in 1..Len(midi_commands) :
    \A p \in ClampedPairs(midi_commands[k], inputs[k]) :
      /\ p[1] \in 0..127
      /\ (p[2] > ToFloat(127) => p[1] = 127)
      /\ (p[2] < ToFloat(0) => p[1] = 0)

C2_Witness ==
  /\ \E k \in 1..Len(midi_commands) :
       \E p \in ClampedPairs(midi_commands[k], inputs[k]) :
         p[2] > ToFloat(127) /\ p[1] = 127
  /\ \E k \in 1..Len(midi_commands) :
       \E p \in ClampedPairs(midi_commands[k], inputs[k]) :
         p[2] < ToFloat(0) /\ p[1] = 0

\* The 6-value record the layout table gives for an event.
LayoutRecord(cmd) ==
  IF cmd.type = "note_on"
    THEN <<ToFloat(1), ToFloat(cmd.pitch), ToFloat(cmd.velocity),
           cmd.duration, ToFloat(cmd.track), cmd.time>>
  ELSE IF cmd.type = "control_change"
    THEN <<ToFloat(2), ToFloat(cmd.controller), ToFloat(cmd.value),
           ToFloat(cmd.track), cmd.time, ToFloat(0)>>
  ELSE <<ToFloat(3), ToFloat(cmd.program), ToFloat(cmd.track), cmd.time,
         ToFloat(0), ToFloat(0)>>

\* C3 as stated: the returned vector is, in insertion order, one 6-value
\* record per stored event holding the event's field values themselves.
C3_ExactRecords ==
  op = "get_command_vector" =>
    /\ Len(ret) = 6 * Len(midi_commands)
    /\ \A k \in 1..Len(midi_commands) : \A j \in 1..6 :
         ret[6 * (k - 1) + j] = LayoutRecord(midi_commands[k])[j]

\* C3 as amended: the returned vector is, in insertion order, one 6-value
\* record per stored event, each value being the float32 nearest to the
\* field's value; its length is 6 times the number of stored events and the
\* empty store gives the empty vector.
C3_Float32Records ==
  op = "get_command_vector" =>
    /\ Len(ret) = 6 * Len(midi_commands)
    /\ (midi_commands = <<>> => ret = <<>>)
    /\ \A k \in 1..Len(midi_commands) : \A j \in 1..6 :
         ret[6 * (k - 1) + j] = F32(LayoutRecord(midi_commands[k])[j])

C3_Witness ==
  /\ op = "get_command_vector"
  /\ Len(midi_commands) >= 2
  /\ midi_commands[1].type = "control_change"
  /\ midi_commands[1].track > 2^F32_BITS
  /\ midi_commands[2].type = "note_on"
  /\ midi_commands[2].time > midi_commands[1].time
  /\ Len(ret) = 12

\* C4 as stated: load_from_vector never fails; a record cut short at the
\* end of the vector is decoded with each missing value read as zero.
C4_TruncatedReadsAsZero ==
  Loaded =>
    /\ err = "none"
    /\ midi_commands =
         Scan(F32Array(arg \o <<0, 0, 0, 0, 0>>), ScanStart(FreshStore)).cmds

RecordEvent(rec) == AddCommand(ToInt(rec[1]), DecodeArgs(ToInt(rec[1]), rec, 0))

RECURSIVE PartEvents(_)
\* The events of the records among parts, in order; strays give none.
PartEvents(parts) ==
  IF parts = <<>> THEN <<>>
  ELSE LET last == parts[Len(parts)]
           rest == PartEvents(SubSeq(parts, 1, Len(parts) - 1))
       IN IF Len(last) = RECORD_LEN THEN Append(rest, RecordEvent(last))
          ELSE rest

\* C6: a vector of well-formed records with stray values before, between
\* or after them decodes to exactly the records' events, in order; and
\* [99, 1,60,90,2.0,0,0] decodes to the single note (60, 90, 2.0, 0, 0).
C6_StraysSkipped ==
  Loaded =>
    /\ \A p \in PartSeqs :
         Flatten(p) = arg => (err = "none" /\ midi_commands = PartEvents(p))
    /\ (arg = Reals(<<99, 1, 60, 90, 2, 0, 0>>) =>
          midi_commands = << [type |-> "note_on", pitch |-> 60,
                              velocity |-> 90, duration |-> ToFloat(2),
                              track |-> 0, time |-> ToFloat(0)] >>)

C6_Witness ==
  /\ Loaded
  /\ \E r1 \in ScanRecords, r2 \in ScanRecords :
       /\ r1 # r2
       /\ arg = r1 \o <<ToFloat(99)>> \o r2
       /\ midi_commands = <<RecordEvent(r1), RecordEvent(r2)>>

\* C7: after load_from_vector(v) the store holds what loading v into a
\* freshly created store gives (and the call ends the same way), whatever
\* it held before.
C7_TotalReplacement ==
  Loaded =>
    LET fresh == Scan(F32Array(arg), ScanStart(FreshStore))
    IN midi_commands = fresh.cmds /\ err = fresh.err

C7_Witness ==
  /\ Loaded
  /\ had_events
  /\ Len(midi_commands) = 1
  /\ midi_commands[1].type = "note_on"

\* C8: synthesize_to_file leaves the stored events, their order, the tempo
\* and the track count as they were, so get_command_vector returns after
\* it what it would have returned before.
C8_RenderKeepsStore ==
  [][ op' = "synthesize_to_file" =>
        /\ midi_commands' = midi_commands
        /\ tempo' = tempo
        /\ num_tracks' = num_tracks
        /\ CommandVector(midi_commands') = CommandVector(midi_commands) ]_vars

C8_Witness ==
  /\ op = "synthesize_to_file"
  /\ Len(rendered) >= 2
  /\ \E k \in 1..Len(rendered) : rendered[k] # k

\* C9: the events handed to the renderer are a permutation of the stored
\* events in non-decreasing time order, events of equal time in the order
\* they were inserted.
C9_StableTimeOrder ==
  op = "synthesize_to_file" =>
    /\ Len(rendered) = Len(midi_commands)
    /\ {rendered[k] : k \in 1..Len(rendered)} = 1..Len(midi_commands)
    /\ \A k \in 1..Len(rendered) : \A l \in 1..Len(rendered) :
         k < l =>
           /\ midi_commands[rendered[k]].time
                <= midi_commands[rendered[l]].time
           /\ (midi_commands[rendered[k]].time
                 = midi_commands[rendered[l]].time
               => rendered[k] < rendered[l])

C9_Witness ==
  /\ op = "synthesize_to_file"
  /\ \E k \in 1..Len(midi_commands) : \E l \in 1..Len(midi_commands) :
       /\ k < l
       /\ midi_commands[k].time = midi_commands[l].time
       /\ midi_commands[k] # midi_commands[l]

\* C10: the scan starts at index 0; every completed iteration moves the
\* index up, by 6 after discriminator 1, 2 or 3 and by 1 otherwise; the call
\* returns exactly when the index is at or beyond the vector's length,
\* after at most length-many iterations; and a scan once begun ends.
C10_ScanTerminates ==
  /\ [](pc = "scan" \/ Loaded => iters <= i /\ iters <= Len(arg))
  /\ [](Loaded /\ err = "none" => i >= Len(arg))
  /\ [][ /\ (pc = "idle" /\ pc' = "scan" => i' = 0 /\ iters' = 0)
         /\ (pc = "scan" /\ pc' = "scan" =>
               /\ i < Len(arg)
               /\ iters' = iters + 1
               /\ i' > i
               /\ i' = i + (IF ToInt(F32(arg[i + 1])) \in {1, 2, 3}
                              THEN 6 ELSE 1))
         /\ (pc = "scan" /\ i >= Len(arg) => pc' = "idle" /\ err' = "none")
         /\ (pc = "scan" /\ pc' = "idle" /\ err' = "none" => i >= Len(arg))
     ]_vars
  /\ (pc = "scan" ~> pc = "idle")

C10_Witness ==
  /\ Loaded
  /\ err = "none"
  /\ iters >= 3
  /\ iters < Len(arg)
  /\ i > Len(arg)
=============================================================================
